---------------------------- MODULE Spec2Model ----------------------------
(***************************************************************************)
(* co2mond (src/co2mond/src/main.c): the reconnection supervisor           *)
(* main_loop, the device session device_loop with its frame validation,    *)
(* decoding, value cache co2mon_data and the two sinks (files under        *)
(* datadir, InfluxDB over HTTP).                                           *)
(*                                                                         *)
(* The program is single threaded.  One step of the model is one blocking  *)
(* call of main_loop / device_loop together with everything the code does  *)
(* until the next blocking call: open_device, sleep, send_magic_table,     *)
(* read_data (with the whole processing of the frame read), close_device.  *)
(***************************************************************************)
EXTENDS Integers, Sequences, FiniteSets, TLC

(***************************************************************************)
(* Program constants.                                                      *)
(***************************************************************************)
CODE_TAMB == 66

CODE_CNTR == 80

\* result[4] of a well-formed frame, main.c:187
SENTINEL == 13

\* largest CO2 reading that is not discarded, main.c:247
CNTR_LIMIT == 3000

(***************************************************************************)
(* Bounds of the model.                                                    *)
(***************************************************************************)
\* longest run of consecutive failed open_device() calls that is explored
MaxStreak == 3

(***************************************************************************)
(* Inputs.  The device delivers 5 significant bytes per read.  The frames  *)
(* explored: every raw value of Raws (0, values around the CO2 limit, the  *)
(* top of the 16 bit range) under the two known codes, two raw values      *)
(* under one unknown code (0x6d), all with the right checksum and          *)
(* sentinel; and frames of all three codes whose checksum byte is off by   *)
(* one, whose sentinel is 0x0a, or both.  The byte sums of the frames lie  *)
(* on both sides of 255.                                                   *)
(***************************************************************************)
Codes == {CODE_TAMB, CODE_CNTR, 109}

Raws == {0, 412, 3000, 3001, 4370, 65535}

FewRaws == {412, 65535}

MkFrame(b0, b1, b2, b3, b4) ==
    [i \in 0..4 |-> CASE i = 0 -> b0 [] i = 1 -> b1 [] i = 2 -> b2
                      [] i = 3 -> b3 [] OTHER -> b4]

\* code c, raw value v, checksum byte off by d, sentinel s
FrameOf(c, v, d, s) ==
    MkFrame(c, v \div 256, v % 256, (c + (v \div 256) + (v % 256) + d) % 256, s)

GoodFrames ==
    { FrameOf(c, v, 0, 13) : c \in {CODE_TAMB, CODE_CNTR}, v \in Raws }
    \cup { FrameOf(109, v, 0, 13) : v \in FewRaws }

BadFrames ==
    { FrameOf(c, v, ds[1], ds[2]) :
        c \in Codes, v \in FewRaws, ds \in {<<1, 13>>, <<0, 10>>, <<1, 10>>} }

Frames == GoodFrames \cup BadFrames

\* a small choice of frames for the properties of the supervisor: a reading
\* of each known code, a discarded one, an unknown code, a wrong checksum
FewFrames ==
    { FrameOf(CODE_TAMB, 412, 0, 13), FrameOf(CODE_TAMB, 0, 0, 13),
      FrameOf(CODE_CNTR, 412, 0, 13), FrameOf(CODE_CNTR, 3001, 0, 13),
      FrameOf(109, 412, 0, 13), FrameOf(CODE_TAMB, 412, 1, 13) }

\* What co2mon_read_data returns: an error, end of input, or a byte count.
ReadResults == {-1, 0, 8}

\* The first system call of a file update that fails ("none": all succeed).
FileSteps == {"none", "open", "lock", "ftruncate", "write", "unlock"}

NoFrame == [i \in 0..4 |-> -1]

(***************************************************************************)
(* State.                                                                  *)
(*   influx_db, datadir  the configuration main() leaves (set / not set)   *)
(*   co2mon_data         the value cache, one uint16_t per code            *)
(*   pc                  where main_loop / device_loop stands              *)
(*   error_shown         main_loop's once-per-streak flag                  *)
(*   dev                 main_loop's handle: 0 is NULL, 1 an open device   *)
(*   ev                  what the last step did (history)                  *)
(*   streak, streakMsgs  consecutive failed opens so far, and how many     *)
(*                       "Unable to open CO2 device" lines they logged     *)
(*                       (history)                                         *)
(*   lastWritten         per known code the raw value of the most recent   *)
(*                       sink write that reported success, 0 before the    *)
(*                       first (history)                                   *)
(*   tried               per known code the raw value ok of the most       *)
(*                       recent sink write that went through (file         *)
(*                       updated, or point posted) and the raw value       *)
(*                       failed of the most recent sink write if it did    *)
(*                       not go through; -2 stands for none.  Recorded     *)
(*                       only in the behaviours of TrackSpec; elsewhere    *)
(*                       both stay -1 (history)                            *)
(***************************************************************************)
VARIABLES influx_db, datadir, co2mon_data, pc, error_shown, dev, ev,
          streak, streakMsgs, lastWritten, tried

(***************************************************************************)
(* One metric file of the data directory, the call of write_value that     *)
(* updates it, and a process outside the daemon that reads it:             *)
(*   content   the file: fill is "absent", "empty", "partial" (some but    *)
(*             not all bytes of val) or "complete" (val and its newline)   *)
(*   wpc       where the call of write_value stands                        *)
(*   wvalue    the text write_value was called with                        *)
(*   wret      what the last call of write_value returned                  *)
(*   wlock     the daemon holds the exclusive lock on the file             *)
(*   rpc       where the reader stands                                     *)
(*   rlock     the reader holds a shared lock on the file                  *)
(*   seen      what the reader read last                                   *)
(* They move only in the behaviours of FileSpec.                           *)
(***************************************************************************)
VARIABLES content, wpc, wvalue, wret, wlock, rpc, rlock, seen

files == <<content, wpc, wvalue, wret, wlock, rpc, rlock, seen>>

vars == <<influx_db, datadir, co2mon_data, pc, error_shown, dev, ev,
          streak, streakMsgs, lastWritten, tried,
          content, wpc, wvalue, wret, wlock, rpc, rlock, seen>>

\* the history of the sink writes
written == <<lastWritten, tried>>

\* the program's own state, without the history variables
progvars == <<influx_db, datadir, co2mon_data, pc, error_shown, dev>>

config == <<influx_db, datadir>>

(***************************************************************************)
(* Values as text.  A decimal text is kept as its sign, its integer part,  *)
(* the number prec of digits after the point and those digits as a number  *)
(* frac.  Numbers with a fraction are counted in units of 0.0001.          *)
(***************************************************************************)
Pow10(n) == CASE n = 0 -> 1 [] n = 1 -> 10 [] n = 2 -> 100
              [] n = 3 -> 1000 [] OTHER -> 10000

Abs(x) == IF x < 0 THEN -x ELSE x

\* printf "%.4f" of a number x of units of 0.0001
FormatF4(x) ==
    [neg |-> x < 0, int |-> Abs(x) \div 10000, prec |-> 4,
     frac |-> Abs(x) % 10000]

\* printf "%d"
FormatD(n) == [neg |-> n < 0, int |-> Abs(n), prec |-> 0, frac |-> 0]

\* atof: the number a decimal text stands for, in units of 0.0001
atof(t) ==
    (IF t.neg THEN -1 ELSE 1) * (t.int * 10000 + t.frac * Pow10(4 - t.prec))

\* atoi: the integer part of a decimal text, with its sign
atoi(t) == (IF t.neg THEN -1 ELSE 1) * t.int

\* mutant: the offset 273 for 273.15
decode_temperature_whole_offset(w) == w * 625 - 2730000

\* (double)w * 0.0625 - 273.15, in units of 0.0001
decode_temperature(w) == w * 625 - 2731500

\* the point handed to post_http: INFLUX_MEAS("temp"),
\* INFLUX_F_FLT("value", atof(value), 4)
temperature_point(value) ==
    [meas |-> "temp", field |-> "value", value |-> FormatF4(atof(value))]

\* INFLUX_MEAS("co2"), INFLUX_F_INT("value", atoi(value))
co2_point(value) ==
    [meas |-> "co2", field |-> "value", value |-> FormatD(atoi(value))]

\* no point posted
NoPoint == [meas |-> "", field |-> "", value |-> FormatD(0)]

Event(kind, r, result, code, w, sink, fail, ret, hb, msg) ==
    [kind |-> kind, r |-> r, result |-> result, code |-> code, w |-> w,
     sink |-> sink, fail |-> fail, ret |-> ret, hb |-> hb, msg |-> msg,
     point |-> NoPoint]

\* a step of the supervisor or of the session entry: no frame, no sink
Plain(kind, msg) ==
    Event(kind, 1, NoFrame, -1, -1, "none", "", 0, "none", msg)

\* no file yet, no call of write_value under way, the reader idle
FilesInit ==
    /\ content = [fill |-> "absent", val |-> ""]
    /\ wpc = "idle"
    /\ wvalue = ""
    /\ wret = 1
    /\ wlock = FALSE
    /\ rpc = "idle"
    /\ rlock = FALSE
    /\ seen = [fill |-> "nothing", val |-> ""]

Init ==
    /\ FilesInit
    /\ influx_db \in BOOLEAN
    /\ datadir \in BOOLEAN
    /\ co2mon_data = [c \in 0..255 |-> 0]
    /\ pc = "open"
    /\ error_shown = 0
    /\ dev = 0
    /\ ev = Plain("start", "")
    /\ streak = 0
    /\ streakMsgs = 0
    /\ lastWritten = [c \in {CODE_TAMB, CODE_CNTR} |-> 0]
    /\ tried = [c \in {CODE_TAMB, CODE_CNTR} |-> [ok |-> -1, failed |-> -1]]

(***************************************************************************)
(* Frame validation and decoding (device_loop, main.c:187-206).            *)
(***************************************************************************)
\* mutant: the sum kept in an int, not cut to 8 bits
checksum_wide(r0, r1, r2) == r0 + r1 + r2

\* unsigned char checksum = r0 + r1 + r2: the sum is cut to 8 bits
checksum(r0, r1, r2) == (r0 + r1 + r2) % 256

\* mutant: the checksum test left out
Malformed_sentinel_only(result) == result[4] # SENTINEL

\* the two "continue" tests: wrong sentinel, then wrong checksum
Malformed(result) ==
    \/ result[4] # SENTINEL
    \/ checksum(result[0], result[1], result[2]) # result[3]

MalformedMsg(result) ==
    IF result[4] # SENTINEL THEN "Unexpected data from device"
                            ELSE "checksum error"

\* uint16_t w = (result[1] << 8) + result[2]
Word(result) == (result[1] * 256 + result[2]) % 65536

\* mutant: >= for >
Discarded_from_limit(w) == w >= CNTR_LIMIT

\* if ((unsigned)w > 3000) break;
Discarded(w) == w > CNTR_LIMIT

\* if (co2mon_data[r0] != w)
Changed(code, w) == co2mon_data[code] # w

\* mutant: < for <=, end of input read as a frame
ReadFailed_negative_only(r) == r < 0

\* if (r <= 0) break;
ReadFailed(r) == r <= 0

(***************************************************************************)
(* The sinks.                                                              *)
(***************************************************************************)
\* write_data: lock, ftruncate, write, unlock; 0 at the first that fails.
write_data(step) == IF step = "none" THEN 1 ELSE 0

\* write_value: 1 at once without datadir, 0 when open fails, else write_data.
write_value(step) ==
    IF ~datadir THEN 1
    ELSE IF step = "open" THEN 0
    ELSE write_data(step)

\* write_temperature_influx / write_co2_influx call post_http, drop its
\* result and reach the end of a function declared int without a return
\* statement.  device_loop uses the value, which is therefore indeterminate:
\* junk stands for it, whatever the outcome post of the HTTP exchange.
write_influx(post, junk) == junk

\* mutant: the cache committed whatever the sink function returned
Commit_always(code, w, ret) == [co2mon_data EXCEPT ![code] = w]

\* co2mon_data[r0] = w, done only when the sink function returned non-zero
Commit(code, w, ret) ==
    IF ret # 0 THEN [co2mon_data EXCEPT ![code] = w] ELSE co2mon_data

\* the outcomes the configured sink can have
StepChoices == IF influx_db \/ ~datadir THEN {"none"} ELSE FileSteps

PostChoices == IF influx_db THEN BOOLEAN ELSE {TRUE}

JunkChoices == IF influx_db THEN {0, 1} ELSE {0}

\* write_heartbeat drops what write_value returns, so which step of the
\* heartbeat update fails makes no difference: one failing step stands for all
HeartbeatChoices == IF influx_db \/ ~datadir THEN {"none"} ELSE {"none", "write"}

\* mutant: the heartbeat written under either sink
HeartbeatDue_always(changed) == TRUE

\* mutant: the heartbeat written inside the block of a changed value
HeartbeatDue_when_changed(changed) == ~influx_db /\ changed

\* if (!influx_db) write_heartbeat(); placed after the block that handles a
\* changed value, so whether the value changed plays no part
HeartbeatDue(changed) == ~influx_db

(***************************************************************************)
(* device_loop, one iteration of while (1) (main.c:178-295).               *)
(***************************************************************************)
\* r <= 0: message, break
ReadError(r) ==
    /\ pc' = "close"
    /\ ev' = Event("read_error", r, NoFrame, -1, -1, "none", "", 0, "none",
                   "Error while reading data from device")
    /\ UNCHANGED <<co2mon_data, written>>

\* wrong sentinel or checksum: message, continue
Skip(r, result) ==
    /\ pc' = "read"
    /\ ev' = Event("malformed", r, result, -1, -1, "none", "", 0, "none",
                   MalformedMsg(result))
    /\ UNCHANGED <<co2mon_data, written>>

\* case CODE_CNTR with w > 3000: break out of the switch
Discard(r, result, code, w) ==
    /\ pc' = "read"
    /\ ev' = Event("discard", r, result, code, w, "none", "", 0, "none", "")
    /\ UNCHANGED <<co2mon_data, written>>

\* mutant: the default branch without its assignment
Unknown_no_store(r, result, code, w) ==
    /\ pc' = "read"
    /\ ev' = Event("unknown", r, result, code, w, "none", "", 0, "none", "")
    /\ UNCHANGED <<co2mon_data, written>>

\* default: co2mon_data[r0] = w
Unknown(r, result, code, w) ==
    /\ pc' = "read"
    /\ co2mon_data' = [co2mon_data EXCEPT ![code] = w]
    /\ ev' = Event("unknown", r, result, code, w, "none", "", 0, "none", "")
    /\ UNCHANGED written

\* case CODE_TAMB (main.c:219-243) and, after the range test, case CODE_CNTR
\* (main.c:259-284): the same statements with the other sink function.
Dispatch(r, result, code, w) ==
    \E step \in (IF Changed(code, w) THEN StepChoices ELSE {"none"}),
       post \in (IF Changed(code, w) THEN PostChoices ELSE {TRUE}),
       junk \in (IF Changed(code, w) THEN JunkChoices ELSE {0}),
       hstep \in HeartbeatChoices :
      LET changed == Changed(code, w)
          sink == IF ~changed THEN "none"
                  ELSE IF influx_db THEN "influx"
                  ELSE IF datadir THEN "file" ELSE "nodir"
          ret  == IF ~changed THEN 0
                  ELSE IF influx_db THEN write_influx(post, junk)
                  ELSE write_value(step)
          fail == CASE sink = "influx" -> IF post THEN "" ELSE "post"
                    [] sink = "file"   -> IF step = "none" THEN "" ELSE step
                    [] OTHER           -> ""
          buf  == IF code = CODE_TAMB THEN FormatF4(decode_temperature(w))
                                      ELSE FormatD(w)
          point == IF code = CODE_TAMB THEN temperature_point(buf)
                                       ELSE co2_point(buf)
          hb   == IF ~HeartbeatDue(changed) THEN "none"
                  ELSE IF ~datadir THEN "nodir"
                  ELSE IF write_value(hstep) = 1 THEN "ok" ELSE "fail"
      IN  /\ pc' = "read"
          /\ co2mon_data' = IF changed THEN Commit(code, w, ret)
                                       ELSE co2mon_data
          /\ lastWritten' = IF changed /\ ret # 0
                              THEN [lastWritten EXCEPT ![code] = w]
                              ELSE lastWritten
          /\ tried' = IF ~changed \/ tried[code].ok = -1 THEN tried
                        ELSE IF fail = ""
                        THEN [tried EXCEPT ![code] = [ok |-> w, failed |-> -2]]
                        ELSE [tried EXCEPT ![code].failed = w]
          /\ ev' = [Event("reading", r, result, code, w, sink, fail, ret, hb,
                           "")
                     EXCEPT !.point = IF sink = "influx" THEN point
                                      ELSE NoPoint]

ProcessFrame(r, result) ==
    IF Malformed(result) THEN Skip(r, result)
    ELSE LET r0 == result[0]
             w  == Word(result)
         IN  CASE r0 = CODE_TAMB -> Dispatch(r, result, r0, w)
               [] r0 = CODE_CNTR -> IF Discarded(w)
                                      THEN Discard(r, result, r0, w)
                                      ELSE Dispatch(r, result, r0, w)
               [] OTHER          -> Unknown(r, result, r0, w)

\* co2mon_read_data and everything up to the next read, the device
\* delivering one of the frames F
ReadFrom(F) ==
    /\ pc = "read"
    /\ \E r \in ReadResults :
          IF ReadFailed(r) THEN ReadError(r)
          ELSE \E result \in F : ProcessFrame(r, result)
    /\ UNCHANGED <<config, files, error_shown, dev, streak, streakMsgs>>

ReadData == ReadFrom(Frames)

\* the same with the few frames of FewFrames
ReadDataFew == ReadFrom(FewFrames)

(***************************************************************************)
(* device_loop entry (main.c:172-176).                                     *)
(***************************************************************************)
\* mutant: the return after the message left out
MagicTableFail_no_return ==
    /\ pc = "magic"
    /\ pc' = "read"
    /\ ev' = Plain("magic_fail", "Unable to send magic table to CO2 device")
    /\ UNCHANGED <<config, files, co2mon_data, error_shown, dev, streak,
                   streakMsgs, written>>

MagicTableFail ==
    /\ pc = "magic"
    /\ pc' = "close"
    /\ ev' = Plain("magic_fail", "Unable to send magic table to CO2 device")
    /\ UNCHANGED <<config, files, co2mon_data, error_shown, dev, streak,
                   streakMsgs, written>>

MagicTableOk ==
    /\ pc = "magic"
    /\ pc' = "read"
    /\ ev' = Plain("armed", "")
    /\ UNCHANGED <<config, files, co2mon_data, error_shown, dev, streak,
                   streakMsgs, written>>

(***************************************************************************)
(* main_loop (main.c:308-334).                                             *)
(***************************************************************************)
\* mutant: error_shown never set
OpenFail_flag_not_set ==
    /\ pc = "open"
    /\ streak < MaxStreak
    /\ LET show == error_shown = 0
       IN  /\ ev' = Plain("open_fail",
                          IF show THEN "Unable to open CO2 device" ELSE "")
           /\ streakMsgs' = streakMsgs + (IF show THEN 1 ELSE 0)
    /\ dev' = 0
    /\ streak' = streak + 1
    /\ pc' = "sleep"
    /\ UNCHANGED <<config, files, co2mon_data, error_shown, written>>

\* open_device() returned NULL: message unless error_shown, then sleep
OpenFail ==
    /\ pc = "open"
    /\ streak < MaxStreak
    /\ LET show == error_shown = 0
       IN  /\ ev' = Plain("open_fail",
                          IF show THEN "Unable to open CO2 device" ELSE "")
           /\ streakMsgs' = streakMsgs + (IF show THEN 1 ELSE 0)
    /\ error_shown' = 1
    /\ dev' = 0
    /\ streak' = streak + 1
    /\ pc' = "sleep"
    /\ UNCHANGED <<config, files, co2mon_data, written>>

\* mutant: the loop never leaves the sleep
Sleep_no_retry ==
    /\ pc = "sleep"
    /\ pc' = "sleep"
    /\ ev' = Plain("sleep", "")
    /\ UNCHANGED <<config, files, co2mon_data, error_shown, dev, streak,
                   streakMsgs, written>>

\* sleep(1); continue;
Sleep ==
    /\ pc = "sleep"
    /\ pc' = "open"
    /\ ev' = Plain("sleep", "")
    /\ UNCHANGED <<config, files, co2mon_data, error_shown, dev, streak,
                   streakMsgs, written>>

\* open_device() returned a handle: error_shown = 0, enter device_loop
OpenOk ==
    /\ pc = "open"
    /\ error_shown' = 0
    /\ dev' = 1
    /\ streak' = 0
    /\ streakMsgs' = 0
    /\ pc' = "magic"
    /\ ev' = Plain("open_ok", "")
    /\ UNCHANGED <<config, files, co2mon_data, written>>

\* mutant: the backoff applied after a session too
CloseDevice_then_sleep ==
    /\ pc = "close"
    /\ dev' = 0
    /\ pc' = "sleep"
    /\ ev' = Plain("close", "")
    /\ UNCHANGED <<config, files, co2mon_data, error_shown, streak, streakMsgs,
                   written>>

\* mutant: back to the top of while (1) with the handle left open
CloseDevice_leak ==
    /\ pc = "close"
    /\ pc' = "open"
    /\ ev' = Plain("close", "")
    /\ UNCHANGED <<config, files, co2mon_data, error_shown, dev, streak,
                   streakMsgs, written>>

\* co2mon_close_device(dev), back to the top of while (1)
CloseDevice ==
    /\ pc = "close"
    /\ dev' = 0
    /\ pc' = "open"
    /\ ev' = Plain("close", "")
    /\ UNCHANGED <<config, files, co2mon_data, error_shown, streak, streakMsgs,
                   written>>

Next ==
    \/ OpenFail
    \/ Sleep
    \/ OpenOk
    \/ MagicTableFail
    \/ MagicTableOk
    \/ ReadData
    \/ CloseDevice

Spec == Init /\ [][Next]_vars

\* Every blocking call returns: open_device, sleep, co2mon_send_magic_table,
\* co2mon_read_data and co2mon_close_device each come back, so the step that
\* follows the call is taken.  Nothing makes a read fail: a device that
\* keeps delivering frames keeps the session reading.
\* The same program with the history of the sink writes recorded in tried.
InitTracked ==
    /\ FilesInit
    /\ influx_db \in BOOLEAN
    /\ datadir \in BOOLEAN
    /\ co2mon_data = [c \in 0..255 |-> 0]
    /\ pc = "open"
    /\ error_shown = 0
    /\ dev = 0
    /\ ev = Plain("start", "")
    /\ streak = 0
    /\ streakMsgs = 0
    /\ lastWritten = [c \in {CODE_TAMB, CODE_CNTR} |-> 0]
    /\ tried = [c \in {CODE_TAMB, CODE_CNTR} |-> [ok |-> -2, failed |-> -2]]

\* The supervisor and the session with the device delivering FewFrames.
NextFew ==
    \/ OpenFail
    \/ Sleep
    \/ OpenOk
    \/ MagicTableFail
    \/ MagicTableOk
    \/ ReadDataFew
    \/ CloseDevice

FairSpec == Init /\ [][NextFew]_vars /\ WF_vars(NextFew)

TrackSpec == InitTracked /\ [][NextFew]_vars

(***************************************************************************)
(* write_value and write_data step by step (main.c:69-124), with a reader  *)
(* outside the daemon.  Locks are those of fcntl(F_SETLKW): a request      *)
(* waits while another process holds a conflicting lock, and closing the   *)
(* descriptor drops the locks of the process on the file.                  *)
(***************************************************************************)
FileValues == {"412", "413"}

\* the state of the daemon around the call, which the call leaves alone
daemon == <<influx_db, datadir, co2mon_data, pc, error_shown, dev, ev,
            streak, streakMsgs, lastWritten, tried>>

reader == <<rpc, rlock, seen>>

\* a session is reading, the file sink selected, with or without directory
FileInit ==
    /\ FilesInit
    /\ influx_db = FALSE
    /\ datadir \in BOOLEAN
    /\ co2mon_data = [c \in 0..255 |-> 0]
    /\ pc = "read"
    /\ error_shown = 0
    /\ dev = 1
    /\ ev = Plain("armed", "")
    /\ streak = 0
    /\ streakMsgs = 0
    /\ lastWritten = [c \in {CODE_TAMB, CODE_CNTR} |-> 0]
    /\ tried = [c \in {CODE_TAMB, CODE_CNTR} |-> [ok |-> -1, failed |-> -1]]

\* if (!datadir) return 1;
WriteValueNoDir ==
    /\ wpc = "idle" /\ ~datadir
    /\ \E v \in FileValues : wvalue' = v
    /\ wret' = 1
    /\ UNCHANGED <<content, wpc, wlock, reader, daemon>>

\* open(filename, O_CREAT | O_WRONLY, 0666) returned a descriptor; a file
\* that did not exist has been created, empty
WriteValueOpen ==
    /\ wpc = "idle" /\ datadir
    /\ \E v \in FileValues : wvalue' = v
    /\ content' = IF content.fill = "absent"
                    THEN [fill |-> "empty", val |-> ""]
                    ELSE content
    /\ wpc' = "lock"
    /\ UNCHANGED <<wret, wlock, reader, daemon>>

\* open returned -1: perror, return 0
WriteValueOpenFail ==
    /\ wpc = "idle" /\ datadir
    /\ \E v \in FileValues : wvalue' = v
    /\ wret' = 0
    /\ UNCHANGED <<content, wpc, wlock, reader, daemon>>

\* lock(fd, F_WRLCK) == 0, granted once the reader holds no lock
WriteDataLock ==
    /\ wpc = "lock" /\ ~rlock
    /\ wlock' = TRUE
    /\ wpc' = "ftruncate"
    /\ UNCHANGED <<content, wvalue, wret, reader, daemon>>

\* lock(fd, F_WRLCK) != 0: perror, return 0
WriteDataLockFail ==
    /\ wpc = "lock"
    /\ wret' = 0
    /\ wpc' = "close"
    /\ UNCHANGED <<content, wvalue, wlock, reader, daemon>>

\* ftruncate(fd, 0) == 0
WriteDataTruncate ==
    /\ wpc = "ftruncate"
    /\ content' = [fill |-> "empty", val |-> ""]
    /\ wpc' = "write"
    /\ UNCHANGED <<wvalue, wret, wlock, reader, daemon>>

\* ftruncate(fd, 0) != 0: perror, return 0
WriteDataTruncateFail ==
    /\ wpc = "ftruncate"
    /\ wret' = 0
    /\ wpc' = "close"
    /\ UNCHANGED <<content, wvalue, wlock, reader, daemon>>

\* write(fd, data, len) == len
WriteDataWrite ==
    /\ wpc = "write"
    /\ content' = [fill |-> "complete", val |-> wvalue]
    /\ wpc' = "unlock"
    /\ UNCHANGED <<wvalue, wret, wlock, reader, daemon>>

\* write(fd, data, len) != len, nothing or a part written: perror, return 0
WriteDataWriteShort ==
    /\ wpc = "write"
    /\ \/ content' = [fill |-> "partial", val |-> wvalue]
       \/ content' = content
    /\ wret' = 0
    /\ wpc' = "close"
    /\ UNCHANGED <<wvalue, wlock, reader, daemon>>

\* lock(fd, F_UNLCK) == 0: return 1
WriteDataUnlock ==
    /\ wpc = "unlock"
    /\ wlock' = FALSE
    /\ wret' = 1
    /\ wpc' = "close"
    /\ UNCHANGED <<content, wvalue, reader, daemon>>

\* lock(fd, F_UNLCK) != 0: perror, return 0
WriteDataUnlockFail ==
    /\ wpc = "unlock"
    /\ wret' = 0
    /\ wpc' = "close"
    /\ UNCHANGED <<content, wvalue, wlock, reader, daemon>>

\* close(fd); return result;  The close drops a lock still held.
WriteValueClose ==
    /\ wpc = "close"
    /\ wlock' = FALSE
    /\ wpc' = "idle"
    /\ UNCHANGED <<content, wvalue, wret, reader, daemon>>

\* The reader: open for reading, shared lock, read the whole file, unlock.
ReaderOpen ==
    /\ rpc = "idle" /\ content.fill # "absent"
    /\ rpc' = "lock"
    /\ UNCHANGED <<content, wpc, wvalue, wret, wlock, rlock, seen, daemon>>

\* the shared lock, granted once the daemon holds no exclusive lock
ReaderLock ==
    /\ rpc = "lock" /\ ~wlock
    /\ rlock' = TRUE
    /\ rpc' = "read"
    /\ UNCHANGED <<content, wpc, wvalue, wret, wlock, seen, daemon>>

ReaderRead ==
    /\ rpc = "read"
    /\ seen' = content
    /\ rpc' = "unlock"
    /\ UNCHANGED <<content, wpc, wvalue, wret, wlock, rlock, daemon>>

ReaderUnlock ==
    /\ rpc = "unlock"
    /\ rlock' = FALSE
    /\ rpc' = "idle"
    /\ UNCHANGED <<content, wpc, wvalue, wret, wlock, seen, daemon>>

FileNext ==
    \/ WriteValueNoDir
    \/ WriteValueOpen
    \/ WriteValueOpenFail
    \/ WriteDataLock
    \/ WriteDataLockFail
    \/ WriteDataTruncate
    \/ WriteDataTruncateFail
    \/ WriteDataWrite
    \/ WriteDataWriteShort
    \/ WriteDataUnlock
    \/ WriteDataUnlockFail
    \/ WriteValueClose
    \/ ReaderOpen
    \/ ReaderLock
    \/ ReaderRead
    \/ ReaderUnlock

FileSpec == FileInit /\ [][FileNext]_vars

TypeOK ==
    /\ influx_db \in BOOLEAN /\ datadir \in BOOLEAN
    /\ co2mon_data \in [0..255 -> 0..65535]
    /\ pc \in {"open", "sleep", "magic", "read", "close"}
    /\ error_shown \in {0, 1}
    /\ dev \in {0, 1}
    /\ streak \in 0..(MaxStreak + 1) /\ streakMsgs \in 0..(MaxStreak + 1)


(***************************************************************************)
(* Vocabulary of the properties.  A frame is judged here from its bytes    *)
(* alone, as the specification words it, not by the model's decoder.       *)
(***************************************************************************)
KnownCodes == {CODE_TAMB, CODE_CNTR}

WellFormed(f) == f[4] = 13 /\ f[3] = (f[0] + f[1] + f[2]) % 256

RawOf(f) == f[1] * 256 + f[2]

\* a valid TAMB frame, or a valid CNTR frame with raw <= 3000
IsReading(f) ==
    /\ WellFormed(f)
    /\ \/ f[0] = 66
       \/ f[0] = 80 /\ RawOf(f) <= 3000

\* the step that leads to ev read a frame (r > 0) from the device
FrameRead(e) == e.kind \in {"malformed", "discard", "unknown", "reading"}

\* the sink function of the metric was called
Dispatched(e) == e.sink # "none"

\* the sink operation itself went through / did not
Succeeded(e) == Dispatched(e) /\ e.fail = ""

Failed(e) == Dispatched(e) /\ e.fail # ""

SinkConfigured == influx_db \/ datadir

(***************************************************************************)
(* C1.  With either sink configured, a valid TAMB frame or a valid CNTR    *)
(* frame with raw <= 3000 triggers a sink write iff its raw value differs  *)
(* from co2mon_data[code]; a reading identical to the one before it, which *)
(* was written successfully, is not written again; and a reading that      *)
(* differs from the one before it, which was written successfully, is      *)
(* written.  Stated as the claim states it, for both sinks: violated with  *)
(* the telemetry sink, where a post that succeeded need not commit the     *)
(* cache (see C4).                                                         *)
(***************************************************************************)
C1_DedupEitherSink ==
    [][ (SinkConfigured /\ pc = "read" /\ IsReading(ev'.result)) =>
          LET c == ev'.result[0]
              w == RawOf(ev'.result)
              prev == ev.kind = "reading" /\ ev.code = c /\ Succeeded(ev)
          IN  /\ Dispatched(ev') <=> w # co2mon_data[c]
              /\ (prev /\ ev.w = w) => ~Dispatched(ev')
              /\ (prev /\ ev.w # w) => Dispatched(ev')
      ]_vars

\* The same statement for the file sink alone, which holds.
DedupFileSink ==
    [][ (datadir /\ ~influx_db /\ pc = "read" /\ IsReading(ev'.result)) =>
          LET c == ev'.result[0]
              w == RawOf(ev'.result)
              prev == ev.kind = "reading" /\ ev.code = c /\ Succeeded(ev)
          IN  /\ Dispatched(ev') <=> w # co2mon_data[c]
              /\ (prev /\ ev.w = w) => ~Dispatched(ev')
              /\ (prev /\ ev.w # w) => Dispatched(ev')
      ]_vars

(***************************************************************************)
(* C2.  If the sink write for a changed TAMB or CNTR reading fails, the    *)
(* cache entry of its code is unchanged and the session goes on reading,   *)
(* and the next frame with the same code and raw value triggers another    *)
(* sink write.  Stated for both sinks as the claim states it: violated     *)
(* with the telemetry sink (see C4).                                       *)
(***************************************************************************)
C2_FailedWriteRetried ==
    [][ /\ (pc = "read" /\ IsReading(ev'.result) /\ Failed(ev')) =>
              /\ co2mon_data'[ev'.result[0]] = co2mon_data[ev'.result[0]]
              /\ pc' = "read"
        /\ (pc = "read" /\ IsReading(ev'.result) /\ ev.kind = "reading"
              /\ Failed(ev) /\ ev.code = ev'.result[0]
              /\ ev.w = RawOf(ev'.result)) =>
              Dispatched(ev')
      ]_vars

\* The same statement for the file sink alone, which holds.
FailedFileWriteRetried ==
    [][ ~influx_db =>
        /\ (pc = "read" /\ IsReading(ev'.result) /\ Failed(ev')) =>
              /\ co2mon_data'[ev'.result[0]] = co2mon_data[ev'.result[0]]
              /\ pc' = "read"
        /\ (pc = "read" /\ IsReading(ev'.result) /\ ev.kind = "reading"
              /\ Failed(ev) /\ ev.code = ev'.result[0]
              /\ ev.w = RawOf(ev'.result)) =>
              Dispatched(ev')
      ]_vars

C4_CommitIffPostSucceeded ==
    [][ (influx_db /\ pc = "read" /\ IsReading(ev'.result)
           /\ RawOf(ev'.result) # co2mon_data[ev'.result[0]]) =>
          LET c == ev'.result[0]
              w == RawOf(ev'.result)
          IN  /\ ev'.sink = "influx"
              /\ co2mon_data'[c] = w <=> ev'.fail = ""
              /\ ev'.fail # "" => co2mon_data'[c] = co2mon_data[c]
      ]_vars

(***************************************************************************)
(* C5.  A frame read from the device is accepted for decoding iff its      *)
(* byte 4 is 0x0d and its byte 3 is (b0 + b1 + b2) mod 256, and an         *)
(* accepted frame yields code = b0 and raw = b1 * 256 + b2.                *)
(***************************************************************************)
C5_FrameAccepted ==
    FrameRead(ev) =>
      LET f == ev.result
      IN  /\ ev.kind # "malformed" <=>
               (f[4] = 13 /\ f[3] = (f[0] + f[1] + f[2]) % 256)
          /\ ev.kind # "malformed" =>
               (ev.code = f[0] /\ ev.w = f[1] * 256 + f[2])

\* an accepted frame whose byte sum exceeds 255
C5_Witness ==
    /\ ev.kind = "reading"
    /\ ev.result[0] + ev.result[1] + ev.result[2] > 255
    /\ ev.w = 65535

(***************************************************************************)
(* C6.  A valid CNTR frame with raw > 3000 causes no sink write and        *)
(* leaves the whole cache unchanged; one with raw = 3000 is dispatched     *)
(* iff 3000 differs from the cache entry; the cache entry of CNTR never    *)
(* exceeds 3000.                                                           *)
(***************************************************************************)
C6_CntrRangeFilter ==
    /\ [][ (pc = "read" /\ WellFormed(ev'.result) /\ ev'.result[0] = 80) =>
             LET w == RawOf(ev'.result)
             IN  /\ w > 3000 =>
                      (~Dispatched(ev') /\ co2mon_data' = co2mon_data)
                 /\ w = 3000 =>
                      (Dispatched(ev') <=> co2mon_data[80] # 3000)
         ]_vars
    /\ [](co2mon_data[80] <= 3000)

\* raw 65535 has just been discarded, after raw 3000 was written and cached
C6_Witness ==
    /\ ev.kind = "discard"
    /\ ev.w = 65535
    /\ co2mon_data[80] = 3000

(***************************************************************************)
(* C7.  A frame with a wrong sentinel or a wrong checksum changes nothing  *)
(* of the program's state (the session keeps reading, every cache entry    *)
(* is as before), causes no sink write and no heartbeat, and is reported   *)
(* by a message.  The state being the same, what follows is processed as   *)
(* if the frame had not been read.                                         *)
(***************************************************************************)
C7_MalformedSkipped ==
    [][ (pc = "read" /\ ev'.r > 0 /\ ~WellFormed(ev'.result)) =>
          /\ UNCHANGED progvars
          /\ UNCHANGED lastWritten
          /\ ~Dispatched(ev')
          /\ ev'.hb = "none"
          /\ ev'.msg # ""
      ]_vars

\* a frame with the right sentinel and a wrong checksum was skipped while
\* the cache held values
C7_Witness ==
    /\ ev.kind = "malformed"
    /\ ev.result[4] = 13
    /\ co2mon_data[66] # 0
    /\ pc = "read"

(***************************************************************************)
(* C8.  Once armed, the session loop ends iff a read returns a result      *)
(* <= 0: every other iteration goes back to reading, and after a result    *)
(* <= 0 no frame is processed and the next step closes the device.         *)
(***************************************************************************)
C8_OnlyReadFailureEnds ==
    [][ /\ pc = "read" =>
              /\ pc' \in {"read", "close"}
              /\ pc' = "close" <=> ev'.r <= 0
              /\ ev'.r <= 0 => (~FrameRead(ev') /\ UNCHANGED co2mon_data)
        /\ pc = "close" => pc' = "open"
      ]_vars

\* end of input (r = 0) has ended a session
C8_Witness ==
    /\ ev.kind = "read_error"
    /\ ev.r = 0
    /\ pc = "close"

(***************************************************************************)
(* C9.  When sending the magic table fails, no frame is read, nothing is   *)
(* written to a sink, no heartbeat, no cache change, and the next step     *)
(* of the supervisor closes the handle before it opens again.              *)
(***************************************************************************)
C9_MagicTableFailure ==
    [][ /\ ev'.kind = "magic_fail" =>
              /\ pc' = "close"
              /\ dev' = 1
              /\ UNCHANGED co2mon_data
              /\ ~Dispatched(ev') /\ ev'.hb = "none"
        /\ ev.kind = "magic_fail" =>
              /\ ev'.kind = "close"
              /\ dev' = 0
              /\ pc' = "open"
              /\ UNCHANGED co2mon_data
      ]_vars

\* arming has just failed: the handle is open, the supervisor closes it next
C9_Witness ==
    /\ ev.kind = "magic_fail"
    /\ pc = "close"
    /\ dev = 1

(***************************************************************************)
(* C10.  "Unable to open CO2 device" is logged exactly once per streak of  *)
(* consecutive failed opens, at its first failure: while a streak lasts    *)
(* it has logged one message, and a successful open ends the streak.       *)
(***************************************************************************)
C10_LoggedOncePerStreak ==
    /\ streak = 0 => streakMsgs = 0
    /\ streak >= 1 => streakMsgs = 1

\* the third failed open of a streak that began after an earlier session
C10_Witness ==
    /\ streak = 3
    /\ streakMsgs = 1
    /\ co2mon_data[66] # 0
    /\ ev.kind = "open_fail"


(***************************************************************************)
(* C11, as claimed: the supervisor never stops, a failed open is followed  *)
(* by a sleep and another open attempt, a session end by the close and     *)
(* another open attempt, and, every blocking call returning, an open       *)
(* attempt eventually follows from every reachable state.  Violated: a     *)
(* session whose reads keep returning frames never ends, and no open       *)
(* attempt follows it.                                                     *)
(***************************************************************************)
C11_OpenAlwaysFollows == []<>(pc = "open")

(***************************************************************************)
(* C11, amended: the supervisor has no terminal state; a failed open is    *)
(* followed by a sleep and then another open attempt; a session end (arm   *)
(* failure or read result <= 0) is followed by the close and then another  *)
(* open attempt; every blocking call returning, an open attempt            *)
(* eventually follows every failed open and every session end (not every   *)
(* reachable state: a session that keeps receiving frames goes on), and,   *)
(* opens failing at most MaxStreak times in a row, every open attempt is   *)
(* eventually followed by a new session.                                   *)
(***************************************************************************)
C11_SupervisorNeverGivesUp ==
    /\ [](ENABLED <<NextFew>>_vars)
    /\ [][ /\ ev'.kind = "open_fail" => pc' = "sleep"
           /\ pc = "sleep" => pc' = "open"
           /\ ev'.kind \in {"magic_fail", "read_error"} => pc' = "close"
           /\ pc = "close" => pc' = "open"
         ]_vars
    /\ (pc \in {"sleep", "close"}) ~> (pc = "open")
    /\ (ev.kind \in {"open_fail", "magic_fail", "read_error"}) ~> (pc = "open")
    /\ (pc = "open") ~> (pc = "magic")

\* the supervisor is back at the open after a streak of failed opens that
\* followed a session ended by a read failure
C11_Witness ==
    /\ pc = "open"
    /\ ev.kind = "sleep"
    /\ streak = 2
    /\ co2mon_data[66] # 0



(***************************************************************************)
(* C12.  The two sinks exclude each other for the whole run: the sink      *)
(* selection never changes; with the telemetry sink active no step         *)
(* attempts a metric file write or a heartbeat write, data directory or    *)
(* not; without it no step attempts a telemetry post.                      *)
(***************************************************************************)
C12_SinksExclusive ==
    /\ [][UNCHANGED influx_db]_vars
    /\ [](influx_db => ev.sink \in {"none", "influx"} /\ ev.hb = "none")
    /\ [](~influx_db => ev.sink # "influx")

\* a changed reading was posted while a data directory was configured too
C12_Witness ==
    /\ influx_db /\ datadir
    /\ ev.kind = "reading" /\ ev.sink = "influx" /\ ev.hb = "none"


(***************************************************************************)
(* C13.  With the telemetry sink active and nothing cached for TAMB, a     *)
(* valid TAMB frame posts one point with measurement "temp" whose field    *)
(* "value" is raw * 0.0625 - 273.15 with 4 decimals.  As the claim states  *)
(* it, raw 4370 gives -9.5000.                                             *)
(***************************************************************************)
TambPosted(raw) ==
    /\ influx_db /\ co2mon_data[66] = 0
    /\ pc = "read" /\ FrameRead(ev') /\ WellFormed(ev'.result)
    /\ ev'.result[0] = 66 /\ RawOf(ev'.result) = raw

C13_Raw4370PostsMinus9_5 ==
    [][ TambPosted(4370) =>
          /\ ev'.sink = "influx"
          /\ ev'.point.meas = "temp" /\ ev'.point.field = "value"
          /\ ev'.point.value = [neg |-> TRUE, int |-> 9, prec |-> 4,
                                frac |-> 5000]
      ]_vars

\* C13 with the example computed: 4370 * 0.0625 - 273.15 = -0.0250.  The
\* general rule is stated in units of 0.0001 for every raw value other
\* than 0 that the device delivers.
C13_PostedTemperature ==
    [][ /\ TambPosted(4370) =>
            /\ ev'.sink = "influx"
            /\ ev'.point.meas = "temp" /\ ev'.point.field = "value"
            /\ ev'.point.value = [neg |-> TRUE, int |-> 0, prec |-> 4,
                                  frac |-> 250]
        /\ \A raw \in Raws \ {0} : TambPosted(raw) =>
            LET x == raw * 625 - 2731500
                v == ev'.point.value
            IN  /\ ev'.sink = "influx"
                /\ ev'.point.meas = "temp" /\ ev'.point.field = "value"
                /\ v.prec = 4 /\ v.frac \in 0..9999 /\ v.int >= 0
                /\ v.neg = (x < 0)
                /\ v.int * 10000 + v.frac = (IF x < 0 THEN -x ELSE x)
      ]_vars

\* a TAMB reading of raw 4370 was posted
C13_Witness ==
    /\ influx_db /\ ev.kind = "reading" /\ ev.code = 66 /\ ev.w = 4370
    /\ ev.sink = "influx" /\ ev.point.meas = "temp"
    /\ ev.point.value.frac = 250


(***************************************************************************)
(* C14.  Every cache entry starts at 0, so a raw-0 reading of TAMB or      *)
(* CNTR is not dispatched as long as no other reading of its code has      *)
(* arrived, and it is dispatched only after some value of that code has    *)
(* been written successfully (the claim says: a non-zero value, which is   *)
(* stronger).  Violated with the telemetry sink: the entry can become      *)
(* non-zero by a post that failed (see C4).                                *)
(***************************************************************************)
RawZeroRead ==
    /\ pc = "read" /\ FrameRead(ev')
    /\ IsReading(ev'.result) /\ RawOf(ev'.result) = 0

C14_RawZeroNeedsEarlierWrite ==
    [][ RawZeroRead =>
          LET c == ev'.result[0]
          IN  /\ tried[c] = [ok |-> -2, failed |-> -2] => ~Dispatched(ev')
              /\ Dispatched(ev') => tried[c].ok # -2
      ]_vars

\* The claim as it stands, for the file sink alone, where it holds.
RawZeroNeedsEarlierWriteFileSink ==
    [][ (~influx_db /\ RawZeroRead) =>
          LET c == ev'.result[0]
          IN  /\ tried[c] = [ok |-> -2, failed |-> -2] => ~Dispatched(ev')
              /\ co2mon_data[c] = 0 => ~Dispatched(ev')
              /\ Dispatched(ev') => tried[c].ok > 0
      ]_vars

\* with the file sink, a raw-0 reading was dispatched after a non-zero one
RawZeroFileSinkWitness ==
    /\ ~influx_db /\ datadir
    /\ ev.kind = "reading" /\ ev.w = 0 /\ Dispatched(ev)


(***************************************************************************)
(* C15.  With telemetry not active, the heartbeat is written once in the   *)
(* step of every valid TAMB frame and every valid CNTR frame with          *)
(* raw <= 3000, whether the value changed or not and whether its metric    *)
(* write succeeded or not (with a data directory the heartbeat file is     *)
(* really updated or fails to be); it is not written for a malformed       *)
(* frame, an unknown code or a CNTR frame with raw > 3000; and the cache   *)
(* after the step depends on the metric write alone, not on the outcome    *)
(* of the heartbeat.                                                       *)
(***************************************************************************)
C15_HeartbeatAfterEveryReading ==
    [][ (~influx_db /\ pc = "read" /\ FrameRead(ev')) =>
          /\ IsReading(ev'.result) =>
                /\ ev'.hb # "none"
                /\ datadir => ev'.hb \in {"ok", "fail"}
                /\ co2mon_data' =
                      IF Dispatched(ev') /\ ev'.ret # 0
                      THEN [co2mon_data EXCEPT
                              ![ev'.result[0]] = RawOf(ev'.result)]
                      ELSE co2mon_data
          /\ ~IsReading(ev'.result) => ev'.hb = "none"
      ]_vars

\* the heartbeat went through after a reading whose metric write failed
C15_Witness ==
    /\ ~influx_db /\ datadir
    /\ ev.kind = "reading" /\ ev.sink = "file" /\ ev.fail # ""
    /\ ev.hb = "ok"

\* the heartbeat was attempted after a reading that had not changed
C15_UnchangedWitness ==
    /\ ~influx_db /\ datadir
    /\ ev.kind = "reading" /\ ~Dispatched(ev) /\ ev.hb = "fail"


(***************************************************************************)
(* C16.  A valid frame whose code is neither TAMB nor CNTR causes no sink  *)
(* write and no heartbeat under either sink, and sets the cache entry of   *)
(* its code to its raw value, leaving every other entry as it was.         *)
(***************************************************************************)
C16_UnknownCodeOnlyShadowed ==
    [][ ( /\ pc = "read" /\ FrameRead(ev')
          /\ WellFormed(ev'.result)
          /\ ev'.result[0] \notin {66, 80} ) =>
          /\ ~Dispatched(ev')
          /\ ev'.hb = "none"
          /\ ev'.point.meas = ""
          /\ co2mon_data' = [co2mon_data EXCEPT
                               ![ev'.result[0]] = RawOf(ev'.result)]
          /\ co2mon_data'[66] = co2mon_data[66]
          /\ co2mon_data'[80] = co2mon_data[80]
      ]_vars

\* a frame of code 0x6d has just set its entry, TAMB and CNTR being cached
C16_Witness ==
    /\ ev.kind = "unknown" /\ ev.code = 109
    /\ co2mon_data[109] = 412
    /\ co2mon_data[66] # 0 /\ co2mon_data[80] # 0


(***************************************************************************)
(* C18.  At most one device handle is open at any time.  A handle is open  *)
(* exactly from a successful open to the close that follows its session,   *)
(* so none is open when an open is attempted; every session end (arm       *)
(* failure or transport error) is followed at once by the close of the     *)
(* handle, and a close happens only then; frames are read only from the    *)
(* open handle; a failed open is followed by the sleep, never by a         *)
(* session or a close.                                                     *)
(***************************************************************************)
C18_OneHandle ==
    /\ [](dev \in {0, 1})
    /\ []((pc \in {"open", "sleep"}) <=> (dev = 0))
    /\ [][ /\ ev'.kind = "open_ok" => dev = 0 /\ dev' = 1
           /\ ev'.kind = "close" =>
                 /\ dev = 1 /\ dev' = 0
                 /\ ev.kind \in {"magic_fail", "read_error"}
           /\ ev.kind \in {"magic_fail", "read_error"} => ev'.kind = "close"
           /\ ev'.kind \in {"open_ok", "open_fail"} =>
                 ev.kind \in {"start", "sleep", "close"}
           /\ (FrameRead(ev') \/ ev'.kind = "read_error") =>
                 dev = 1 /\ dev' = 1
           /\ ev.kind = "open_fail" => ev'.kind = "sleep" /\ dev' = 0
         ]_vars

\* a session that received readings has ended and its handle is closed
C18_Witness ==
    /\ ev.kind = "close" /\ dev = 0 /\ pc = "open"
    /\ co2mon_data[66] # 0


(***************************************************************************)
(* C17.  A process that reads a metric file under a shared whole-file      *)
(* lock never reads an empty or partly written value, at any interleaving  *)
(* with write_value, the first creation of the file and a failing          *)
(* truncate or write included.                                             *)
(***************************************************************************)
C17_ReaderNeverSeesEmptyOrPartial == seen.fill \in {"nothing", "complete"}

\* The weaker statement that only a partly written value is never read,
\* violated as well (by a short write, whose lock the close drops).
ReaderNeverSeesPartial == seen.fill # "partial"

\* The part of C17 about the writer's steps, which holds: lock, truncate,
\* write, unlock in that order, truncate and write only under the
\* exclusive lock, the two locks never held together, and after a failed
\* step nothing but the close.
WriterStepsUnderLock ==
    /\ [](wpc \in {"ftruncate", "write", "unlock"} => wlock)
    /\ [](~(wlock /\ rlock))
    /\ [][ /\ wpc' # wpc =>
                <<wpc, wpc'>> \in
                   { <<"idle", "lock">>, <<"lock", "ftruncate">>,
                     <<"ftruncate", "write">>, <<"write", "unlock">>,
                     <<"unlock", "close">>, <<"close", "idle">>,
                     <<"lock", "close">>, <<"ftruncate", "close">>,
                     <<"write", "close">> }
           /\ content' # content =>
                \/ wlock /\ wlock' /\ ~rlock
                \/ content.fill = "absent" /\ content'.fill = "empty"
         ]_vars

\* a complete value has been read while the next update waits for the lock
WriterStepsWitness ==
    /\ seen.fill = "complete" /\ rlock /\ wpc = "lock"

(***************************************************************************)
(* C19.  Closing a session and opening a new one leaves every cache entry  *)
(* unchanged, so the first reading of a new session that equals the value  *)
(* last written successfully for its code is not dispatched again, and     *)
(* one that equals a value whose write failed is dispatched.  Stated for   *)
(* both sinks as the claim states it: violated with the telemetry sink,    *)
(* where the cache does not follow the outcome of the post (see C4).       *)
(***************************************************************************)
C19_CacheSurvivesReconnect ==
    [][ /\ pc \in {"open", "sleep", "magic", "close"} =>
              UNCHANGED co2mon_data
        /\ (ev.kind = "armed" /\ pc = "read" /\ IsReading(ev'.result)) =>
              LET c == ev'.result[0]
                  w == RawOf(ev'.result)
              IN  /\ tried[c].ok = w => ~Dispatched(ev')
                  /\ tried[c].failed = w => Dispatched(ev')
      ]_vars

\* The same statement for the file sink alone, which holds.
CacheSurvivesReconnectFileSink ==
    [][ ~influx_db =>
        /\ pc \in {"open", "sleep", "magic", "close"} =>
              UNCHANGED co2mon_data
        /\ (ev.kind = "armed" /\ pc = "read" /\ IsReading(ev'.result)) =>
              LET c == ev'.result[0]
                  w == RawOf(ev'.result)
              IN  /\ tried[c].ok = w => ~Dispatched(ev')
                  /\ tried[c].failed = w => Dispatched(ev')
      ]_vars

\* with the file sink, the first reading of a new session was suppressed
\* because an earlier session had written its value
FileSinkReconnectWitness ==
    /\ ~influx_db /\ datadir
    /\ ev.kind = "reading" /\ ~Dispatched(ev)
    /\ tried[ev.code].ok = ev.w
    /\ ev.w = 412


(***************************************************************************)
(* C20.  The backoff belongs to failed opens alone: the step after a       *)
(* failed open is the sleep and a sleep happens after nothing else; the    *)
(* step after a close is the next open attempt.  A session that ends logs  *)
(* its message every time (arm failure or failed read), whatever           *)
(* error_shown was: a successful open has reset that flag, and no step of  *)
(* a session reads or sets it.                                             *)
(***************************************************************************)
C20_BackoffOnlyAfterFailedOpen ==
    /\ [](pc \in {"magic", "read", "close"} => error_shown = 0)
    /\ [][ /\ (ev'.kind = "sleep") <=> (ev.kind = "open_fail")
           /\ (pc' = "sleep") <=> (ev'.kind = "open_fail")
           /\ ev.kind = "close" => ev'.kind \in {"open_ok", "open_fail"}
           /\ ev'.kind = "open_ok" => error_shown' = 0
           /\ ev'.kind = "magic_fail" =>
                 /\ ev.kind = "open_ok"
                 /\ ev'.msg = "Unable to send magic table to CO2 device"
           /\ ev'.kind = "read_error" =>
                 ev'.msg = "Error while reading data from device"
           /\ pc \in {"magic", "read", "close"} => UNCHANGED error_shown
         ]_vars

\* arming has failed, with its message, in a session later than the first
C20_Witness ==
    /\ ev.kind = "magic_fail" /\ ev.msg # "" /\ pc = "close"
    /\ co2mon_data[66] # 0

=============================================================================
